---------------------------- MODULE Spec2Model ----------------------------
(***************************************************************************)
(* State-machine model of pynipt's Pipeline facade and PipelineBuilder     *)
(* (pynipt/lib/pipeline.py).                                               *)
(*                                                                         *)
(* Python values are encoded with one TLA+ type per field:                 *)
(*   - an attribute or step-code name is a TLA+ string; Chars gives its    *)
(*     characters, on which the string operations of the code work;        *)
(*   - None of a string field is the string "<None>"; None of the stored   *)
(*     package id is the empty sequence and an int n is <<n>>;             *)
(*   - **kwargs is a sequence of [name, val] records with distinct names   *)
(*     (a Python dict keeps the order of the call).                        *)
(* Bucket, PluginLoader, the interface class and the package classes are   *)
(* collaborators outside pipeline.py; they are modelled at the boundary    *)
(* pipeline.py uses.                                                       *)
(***************************************************************************)
EXTENDS Integers, Sequences, FiniteSets, TLC

VARIABLES
    selected,           \* self.selected: the bound definition, or NoneDef
    pipeline_title,     \* self._pipeline_title
    stored_id,          \* self._stored_id
    interface_plugins,  \* self._interface_plugins: label of the interface, or NoTitle
    pipeobj,            \* self._pipeobj: set of class titles the loaded object exposes
    executed,           \* storage namespace of processed steps: set of step codes
    reported,           \* storage namespace of reports
    masked,             \* storage namespace of masks
    last,               \* observation of the most recent call (inputs, outcome, calls made)
    verbose,            \* self._verbose
    queue,              \* scheduler_param['queue'] of the interface: jobs waiting
    done,               \* scheduler_param['done'] of the interface: jobs finished
    progressbar,        \* self._progressbar: index into bars, 0 for None
    bars,               \* the progress bars created so far, in creation order
    trackers,           \* the workon threads started so far, in start order
    pending             \* the check_progression call in progress: << >> when none,
                        \* else its locals so far: <<queued_jobs>>, then
                        \* <<queued_jobs, finished_jobs>>, then with the index of
                        \* the bar it has assigned to self._progressbar

\* the fields of the job scheduler and of progress tracking
jobvars   == <<queue, done>>
trackvars == <<progressbar, bars, trackers, pending>>

vars == <<selected, pipeline_title, stored_id, interface_plugins, pipeobj,
          executed, reported, masked, last, verbose, jobvars, trackvars>>

-----------------------------------------------------------------------------
(* Bounds of the model *)

\* longest **kwargs of a call
MaxKw == 2
\* longest list given to remove
MaxList == 2
\* most check_progression calls that start a tracker
MaxTrackers == 2
\* most jobs the scheduler is given
MaxJobs == 2

-----------------------------------------------------------------------------
(* Strings *)

\* The characters of every name the model uses.
Chars(s) ==
    CASE s = "_interface"          -> <<"_","i","n","t","e","r","f","a","c","e">>
      [] s = "installed_pipelines" -> <<"i","n","s","t","a","l","l","e","d","_","p","i","p","e","l","i","n","e","s">>
      [] s = "interface"           -> <<"i","n","t","e","r","f","a","c","e">>
      [] s = "pipe_s0"             -> <<"p","i","p","e","_","s","0">>
      [] s = "pipe_s1"             -> <<"p","i","p","e","_","s","1">>
      [] s = "pipe_t0"             -> <<"p","i","p","e","_","t","0">>
      [] s = "subpipe_k"           -> <<"s","u","b","p","i","p","e","_","k">>
      [] s = "x"                   -> <<"x">>
      [] s = "y"                   -> <<"y">>
      [] s = "zz"                  -> <<"z","z">>
      [] s = "abc"                 -> <<"a","b","c">>
      [] s = "def"                 -> <<"d","e","f">>
      [] s = "ab"                  -> <<"a","b">>
      [] s = "abcd"                -> <<"a","b","c","d">>

\* Python `sub in s` on character sequences
Contains(sub, s) ==
    \E i \in 0..(Len(s) - Len(sub)) :
        \A j \in 1..Len(sub) : s[i + j] = sub[j]

\* Python s[n:]
DropChars(s, n) == [i \in 1..(IF Len(s) > n THEN Len(s) - n ELSE 0) |-> s[i + n]]

\* the step-naming text 'pipe_' of PipelineBuilder.installed_pipelines
PipePrefix == <<"p","i","p","e","_">>

-----------------------------------------------------------------------------
(* Collaborators: plugin loader and package classes *)

NoTitle == "<None>"
NoId    == << >>
NoVals  == [n \in {} |-> 0]
NoneDef == [cls |-> NoTitle, vals |-> NoVals]

\* self._plugin.avail_pkgs: index -> title
installed_packages == [i \in {0, 1} |-> IF i = 0 THEN "A" ELSE "B"]

\* dir() of an instance of a package class, in dir()'s sorted order
ClassDir(cls) ==
    CASE cls = "A" -> <<"_interface", "installed_pipelines", "interface",
                        "pipe_s0", "pipe_s1", "x", "y">>
      [] cls = "B" -> <<"_interface", "installed_pipelines", "interface",
                        "pipe_t0", "subpipe_k", "x">>

\* the configuration attributes a package class declares, with default 0
ClassParams(cls) ==
    CASE cls = "A" -> {"x", "y"}
      [] cls = "B" -> {"x", "subpipe_k"}

ClassDefaults(cls) == [n \in ClassParams(cls) |-> 0]

Range(seq) == {seq[i] : i \in 1..Len(seq)}

\* hasattr(self.selected, key)
HasAttr(def, key) == key \in Range(ClassDir(def.cls))

\* the attributes PipelineBuilder declares as properties without a setter
ReadOnlyProps == {"interface", "installed_pipelines"}


-----------------------------------------------------------------------------
(* PipelineBuilder *)

\* PipelineBuilder.installed_pipelines: index -> step name (as characters)
installed_pipelines(def) ==
    LET HasPipe(n) == Contains(PipePrefix, Chars(n))
        pipes == SelectSeq(ClassDir(def.cls), HasPipe)
    IN  [i \in 0..(Len(pipes) - 1) |-> DropChars(Chars(pipes[i + 1]), 5)]

\* getattr(self.selected, 'pipe_' + name): the attributes of that name
StepMethods(def, name) ==
    {n \in Range(ClassDir(def.cls)) : Chars(n) = PipePrefix \o name}

-----------------------------------------------------------------------------
(* Keyword arguments *)

KwNames(kw) == {kw[i].name : i \in 1..Len(kw)}

\* setattr(obj, key, value) on the instance dictionary
SetAttr(vals, key, value) ==
    [n \in (DOMAIN vals) \cup {key} |-> IF n = key THEN value ELSE vals[n]]

RECURSIVE ApplyKw(_, _)
\* keyword arguments of a constructor call, bound in call order
ApplyKw(vals, kw) ==
    IF kw = << >> THEN vals
    ELSE ApplyKw(SetAttr(vals, Head(kw).name, Head(kw).val), Tail(kw))

-----------------------------------------------------------------------------
(* The orchestrator's fields as one value, and the outcome of a call *)

Cur == [selected |-> selected, title |-> pipeline_title, sid |-> stored_id,
        iface |-> interface_plugins, pipeobj |-> pipeobj]

\* st: the fields after the call; raised: "ok" or the exception that left the
\* call; rebuilt: the fields the call assigned a newly built object to;
\* invoked: the step methods called, with the parameter values they saw
Outcome(st, raised, rebuilt) ==
    [st |-> st, raised |-> raised, rebuilt |-> rebuilt,
     invoked |-> << >>, invokedWith |-> NoVals]

\* the exceptions pipeline.py raises, by the failure kind they stand for
NoPackageSelected        == "InvalidApproach"
UnknownParameterName     == "KeyError"
UnknownStepIndex         == "KeyError"
InvalidPackageIdentifier == "IndexError"
MalformedStepCode        == "InvalidStepCode"

-----------------------------------------------------------------------------
(* PluginLoader.get_pkgs *)

AllTitles == {installed_packages[i] : i \in DOMAIN installed_packages}
NoObj     == {NoTitle}

ValidId(sid) == sid # NoId /\ sid[1] \in DOMAIN installed_packages

\* What get_pkgs(sid) can do.  For an index of avail_pkgs it returns the object
\* holding that package's class.  For None or an unknown index the loader is
\* not constrained by pipeline.py: it may raise, or return an object that
\* holds every discovered class.
GetPkgsOutcomes(sid) ==
    IF ValidId(sid)
    THEN {[raises |-> FALSE, obj |-> {installed_packages[sid[1]]}]}
    ELSE {[raises |-> TRUE,  obj |-> {}],
          [raises |-> FALSE, obj |-> AllTitles]}

-----------------------------------------------------------------------------
(* Pipeline.reset *)

reset(st, kw, pk) ==
    IF st.title # NoTitle
    THEN LET s1 == [st EXCEPT !.iface = st.title]
             s2 == [s1 EXCEPT !.pipeobj = pk.obj]
         IN  IF pk.raises
             THEN Outcome(s1, "LoaderError", {"interface"})
             ELSE IF st.title \notin pk.obj
             THEN Outcome(s2, "AttributeError", {"interface", "pipeobj"})
             ELSE IF ~(KwNames(kw) \subseteq ClassParams(st.title))
             THEN Outcome(s2, "TypeError", {"interface", "pipeobj"})
             ELSE Outcome([s2 EXCEPT !.selected =
                               [cls  |-> st.title,
                                vals |-> ApplyKw(ClassDefaults(st.title), kw)]],
                          "ok", {"interface", "pipeobj", "selected"})
    ELSE Outcome(st, "ok", {})

-----------------------------------------------------------------------------
(* Pipeline.set_param *)

RECURSIVE SetParamLoop(_, _)
\* the for loop of set_param over kwargs.items()
SetParamLoop(def, kw) ==
    IF kw = << >> THEN [def |-> def, raised |-> "ok"]
    ELSE LET key == Head(kw).name
             value == Head(kw).val
         IN  IF HasAttr(def, key)
             THEN IF key \in ReadOnlyProps
                  THEN [def |-> def, raised |-> "AttributeError"]
                  ELSE SetParamLoop([def EXCEPT !.vals = SetAttr(def.vals, key, value)],
                                    Tail(kw))
             ELSE [def |-> def, raised |-> "KeyError"]

\* set_param without the raise of its else branch
set_param_NoRaise(st, kw) ==
    IF st.selected # NoneDef
    THEN LET r == SetParamLoop(st.selected, kw)
         IN  Outcome([st EXCEPT !.selected = r.def], r.raised, {})
    ELSE Outcome(st, "ok", {})

set_param(st, kw) ==
    IF st.selected # NoneDef
    THEN LET r == SetParamLoop(st.selected, kw)
         IN  Outcome([st EXCEPT !.selected = r.def], r.raised, {})
    ELSE Outcome(st, "InvalidApproach", {})


-----------------------------------------------------------------------------
(* Pipeline.detach_package, set_empty_package, set_package, run *)

detach_package(st) == [st EXCEPT !.selected = NoneDef, !.sid = NoId]

set_empty_package(st, title) ==
    Outcome([detach_package(st) EXCEPT !.iface = title, !.title = title],
            "ok", {"interface"})

\* a package id given by the caller: an int n, or a value of another type
IntId(n)  == [isInt |-> TRUE, n |-> n]
StrId     == [isInt |-> FALSE, n |-> 0]

set_package(st, id, kw, pk) ==
    IF id.isInt
    THEN LET s1 == [st EXCEPT !.sid = <<id.n>>]
         IN  IF id.n \in DOMAIN installed_packages
             THEN reset([s1 EXCEPT !.title = installed_packages[id.n]], kw, pk)
             ELSE Outcome(s1, "KeyError", {})
    ELSE Outcome(st, "IndexError", {})

\* evaluating self.selected.pipe_<installed_pipelines[idx]>, as both exec
\* lines of run do: "ok" or the exception of the lookup
StepLookup(def, idx) ==
    IF def = NoneDef THEN "AttributeError"
    ELSE IF idx \notin DOMAIN installed_pipelines(def) THEN "KeyError"
    ELSE IF StepMethods(def, installed_pipelines(def)[idx]) = {} THEN "AttributeError"
    ELSE "ok"

\* the call line with the index reduced modulo the number of registered steps
invoke_Wrap(r, idx) ==
    LET def   == r.st.selected
        pipes == installed_pipelines(def)
        i     == IF def = NoneDef \/ DOMAIN pipes = {} THEN idx
                 ELSE idx % Cardinality(DOMAIN pipes)
    IN  IF StepLookup(def, i) # "ok"
        THEN [r EXCEPT !.raised = StepLookup(def, i)]
        ELSE IF StepMethods(def, pipes[i]) \cap DOMAIN def.vals # {}
        THEN [r EXCEPT !.raised = "TypeError"]
        ELSE [r EXCEPT !.invoked = << CHOOSE n \in StepMethods(def, pipes[i]) : TRUE >>,
                       !.invokedWith = def.vals]

\* the exec line that calls the step
invoke(r, idx) ==
    LET def   == r.st.selected
        pipes == installed_pipelines(def)
    IN  IF StepLookup(def, idx) # "ok"
        THEN [r EXCEPT !.raised = StepLookup(def, idx)]
        ELSE IF StepMethods(def, pipes[idx]) \cap DOMAIN def.vals # {}
        THEN [r EXCEPT !.raised = "TypeError"]
        ELSE [r EXCEPT !.invoked = << CHOOSE n \in StepMethods(def, pipes[idx]) : TRUE >>,
                       !.invokedWith = def.vals]

\* the exec line that prints the step's documentation when verbose
print_doc(r, idx, vb) ==
    IF vb /\ StepLookup(r.st.selected, idx) # "ok"
    THEN [r EXCEPT !.raised = StepLookup(r.st.selected, idx)]
    ELSE r

\* run applying the parameters before the rebuild instead of after it
run_ParamsBeforeReset(st, idx, kw, pk, vb) ==
    LET r2 == set_param(st, kw)
        r1 == reset(r2.st, << >>, pk)
        r4 == print_doc(r1, idx, vb)
    IN  IF r2.raised # "ok" THEN r2
        ELSE IF r1.raised # "ok" THEN r1
        ELSE IF r4.raised # "ok" THEN r4
        ELSE invoke(r4, idx)

run(st, idx, kw, pk, vb) ==
    LET r1 == reset(st, << >>, pk)
        r2 == set_param(r1.st, kw)
        r3 == [r2 EXCEPT !.rebuilt = r1.rebuilt]
        r4 == print_doc(r3, idx, vb)
    IN  IF r1.raised # "ok" THEN r1
        ELSE IF r2.raised # "ok" THEN r3
        ELSE IF r4.raised # "ok" THEN r4
        ELSE invoke(r4, idx)

-----------------------------------------------------------------------------
(* Pipeline._summary *)

NoListing == [title |-> NoTitle, processed |-> {}, reported |-> {}, masked |-> {}]
NoFilter  == [k \in {} |-> << >>]
NoParams  == [n \in {} |-> [kind |-> "int", n |-> 0, pipes |-> << >>]]
NoReturn  == [kind |-> "None", dataclass |-> 0, filter |-> NoFilter, listing |-> NoListing,
              params |-> NoParams, literal |-> ""]

_summary(st, ex, rp, mk) ==
    IF st.title # NoTitle
    THEN [NoReturn EXCEPT !.kind = "text",
                          !.listing = [title |-> st.title, processed |-> ex,
                                       reported |-> rp, masked |-> mk]]
    ELSE NoReturn

\* str(v) for a value _summary returns: the text itself, or the string 'None'
\* for None.  literal: the characters of a text that is no listing
str(v) ==
    IF v.kind = "None" THEN [v EXCEPT !.kind = "text", !.literal = "None"] ELSE v

\* the property Pipeline.summary
summary(st, ex, rp, mk) == str(_summary(st, ex, rp, mk))

-----------------------------------------------------------------------------
(* Pipeline.get_param *)

\* getattr(self.selected, param): the value of a configuration attribute, the
\* step registry for installed_pipelines, an object for anything else
getattr(def, param) ==
    IF param \in DOMAIN def.vals
    THEN [kind |-> "int", n |-> def.vals[param], pipes |-> << >>]
    ELSE IF param = "installed_pipelines"
    THEN [kind |-> "dict", n |-> 0, pipes |-> installed_pipelines(def)]
    ELSE [kind |-> "object", n |-> 0, pipes |-> << >>]

\* the three conditions of the comprehension in get_param
IsParam(param) ==
    /\ Chars(param)[1] # "_"
    /\ ~Contains(PipePrefix, Chars(param))
    /\ param \notin {"installed_packages", "interface"}

\* get_param raising InvalidApproach, as set_param does, when nothing is bound
get_param_Raises(def) ==
    IF def # NoneDef
    THEN [raised |-> "ok",
          ret |-> [NoReturn EXCEPT
                      !.kind = "dict",
                      !.params = [p \in {q \in Range(ClassDir(def.cls)) : IsParam(q)}
                                     |-> getattr(def, p)]]]
    ELSE [raised |-> "InvalidApproach", ret |-> NoReturn]

get_param(def) ==
    IF def # NoneDef
    THEN [raised |-> "ok",
          ret |-> [NoReturn EXCEPT
                      !.kind = "dict",
                      !.params = [p \in {q \in Range(ClassDir(def.cls)) : IsParam(q)}
                                     |-> getattr(def, p)]]]
    ELSE [raised |-> "ok", ret |-> NoReturn]

-----------------------------------------------------------------------------
(* The interface collaborator: directories of the three namespaces *)

\* get_step_dir, get_report_dir, get_mask_dir: the directory of a code in a
\* namespace; the lookup raises KeyError for a code the namespace lacks
DirOf(kind, ns, code) == [raises |-> code \notin ns, path |-> <<kind, code>>]

get_step_dir(ex, code)   == DirOf("Processing", ex, code)
get_report_dir(rp, code) == DirOf("Results", rp, code)
get_mask_dir(mk, code)   == DirOf("Mask", mk, code)

\* destroy_step(code, mode): the namespace the mode addresses loses the code
destroy_step(ns, nsMode, code, mode) == IF mode = nsMode THEN ns \ {code} ELSE ns

-----------------------------------------------------------------------------
(* Pipeline.remove *)

\* st.destroyed: the destroy_step calls made so far, in order
RECURSIVE RemoveLoop(_, _, _)
RemoveLoop(st, codes, mode) ==
    IF codes = << >> THEN st
    ELSE RemoveLoop([st EXCEPT
                        !.ex = destroy_step(@, "processing", Head(codes), mode),
                        !.rp = destroy_step(@, "reporting", Head(codes), mode),
                        !.mk = destroy_step(@, "masking", Head(codes), mode),
                        !.destroyed = Append(@, [code |-> Head(codes), mode |-> mode])],
                    Tail(codes), mode)

\* argKind: "list" (arg its elements), "str" (arg the one string) or "other"
remove(iface, st, argKind, arg, mode) ==
    IF argKind = "list"
    THEN IF arg # << >> /\ iface = NoTitle
         THEN [st EXCEPT !.raised = "AttributeError"]
         ELSE RemoveLoop(st, arg, mode)
    ELSE IF argKind = "str" /\ Len(Chars(arg[1])) = 3
    THEN IF iface = NoTitle
         THEN [st EXCEPT !.raised = "AttributeError"]
         ELSE RemoveLoop(st, arg, mode)
    ELSE [st EXCEPT !.raised = "InvalidStepCode"]

-----------------------------------------------------------------------------
(* Pipeline.get_dset *)

\* the nested try/except with the mask lookup tried before the report lookup
ResolveDir_MaskFirst(ex, rp, mk, code) ==
    IF ~get_step_dir(ex, code).raises THEN get_step_dir(ex, code)
    ELSE IF ~get_mask_dir(mk, code).raises THEN get_mask_dir(mk, code)
    ELSE get_report_dir(rp, code)

\* the nested try/except of get_dset
ResolveDir(ex, rp, mk, code) ==
    IF ~get_step_dir(ex, code).raises THEN get_step_dir(ex, code)
    ELSE IF ~get_report_dir(rp, code).raises THEN get_report_dir(rp, code)
    ELSE get_mask_dir(mk, code)

\* filter_ with one more key
WithKey(filter, key, value) ==
    [k \in (DOMAIN filter) \cup {key} |-> IF k = key THEN value ELSE filter[k]]

WithoutKey(filter, key) == [k \in (DOMAIN filter) \ {key} |-> filter[k]]

Query(dataclass, filter) ==
    [raised |-> "ok",
     ret |-> [NoReturn EXCEPT !.kind = "query", !.dataclass = dataclass, !.filter = filter]]

\* regex: << >> for None, <<pattern>> otherwise
get_dset(iface, ex, rp, mk, code, ext, regex) ==
    IF iface # NoTitle
    THEN LET f0 == WithKey(WithKey(NoFilter, "pipelines", <<iface>>), "ext", <<ext>>)
             f1 == IF regex # << >> THEN WithKey(f0, "regex", regex) ELSE f0
             step == ResolveDir(ex, rp, mk, code)
         IN  IF step.raises
             THEN [raised |-> "KeyError", ret |-> NoReturn]
             ELSE IF code \in ex
             THEN Query(1, WithKey(f1, "steps", step.path))
             ELSE IF code \in rp
             THEN Query(2, WithKey(f1, "reports", step.path))
             ELSE IF code \in mk
             THEN Query(3, WithoutKey(WithKey(f1, "datatypes", step.path), "pipelines"))
             ELSE [raised |-> "ok", ret |-> NoReturn]
    ELSE [raised |-> "ok", ret |-> NoReturn]

-----------------------------------------------------------------------------
(* Inputs *)

\* "x" is a parameter of both classes, "y" of class A only and "zz" an
\* attribute of neither
KwPairs ==
    [name : {"x", "y", "zz"}, val : {1}]

\* every **kwargs of at most MaxKw distinct names
KwInputs ==
    {kw \in UNION {[1..n -> KwPairs] : n \in 0..MaxKw} :
        \A i, j \in 1..Len(kw) : i # j => kw[i].name # kw[j].name}

PkgIdInputs == {IntId(0), IntId(1), IntId(7), StrId}
TitleInputs == {"T", "A"}
IdxInputs   == {0, 1, 2}

-----------------------------------------------------------------------------
(* Observation of the most recent call *)

NoCall ==
    [op |-> "init", raised |-> "ok", rebuilt |-> {}, invoked |-> << >>,
     invokedWith |-> NoVals, kw |-> << >>, idx |-> 0, id |-> StrId,
     arg |-> << >>, argKind |-> "none", mode |-> "", ext |-> "", regex |-> << >>,
     destroyed |-> << >>, ret |-> NoReturn,
     phase |-> "fresh", stage |-> "", given |-> NoVals]

\* History kept with the call record:
\*   phase  "fresh" until the first set_package or set_empty_package call;
\*          "selected" after a set_package that returned; "empty" after
\*          set_empty_package; "detached" after detach_package released a
\*          bound definition; "other" after anything else that touches the
\*          selection (a set_package that raised, a detach of no definition);
\*   stage  "pkg" right after a set_package that returned, "pkg;param" right
\*          after a set_param that returned and directly followed it;
\*   given  the keyword values of those two calls, later ones overriding.
PhaseAfterDetach ==
    IF selected # NoneDef THEN "detached"
    ELSE IF last.phase = "fresh" THEN "fresh" ELSE "other"

\* the call record of an operation with outcome r
Called(op, r) ==
    [NoCall EXCEPT !.op = op, !.raised = r.raised, !.rebuilt = r.rebuilt,
                   !.invoked = r.invoked, !.invokedWith = r.invokedWith,
                   !.phase = last.phase]

Commit(r) ==
    /\ selected' = r.st.selected
    /\ pipeline_title' = r.st.title
    /\ stored_id' = r.st.sid
    /\ interface_plugins' = r.st.iface
    /\ pipeobj' = r.st.pipeobj

-----------------------------------------------------------------------------
(* The orchestrator *)

\* Pipeline.__init__ on a dataset path without step data, with either
\* setting of the verbose option
Init ==
    /\ selected = NoneDef
    /\ pipeline_title = NoTitle
    /\ stored_id = NoId
    /\ interface_plugins = NoTitle
    /\ pipeobj = NoObj
    /\ executed = {} /\ reported = {} /\ masked = {}
    /\ last = NoCall
    /\ verbose \in BOOLEAN
    /\ queue = << >> /\ done = << >>
    /\ progressbar = 0 /\ bars = << >> /\ trackers = << >> /\ pending = << >>

SetPackage ==
    \E id \in PkgIdInputs, kw \in KwInputs :
      \E pk \in GetPkgsOutcomes(IF id.isInt THEN <<id.n>> ELSE stored_id) :
        LET r == set_package(Cur, id, kw, pk)
        IN  /\ Commit(r)
            /\ last' = [Called("set_package", r) EXCEPT
                            !.id = id, !.kw = kw,
                            !.phase = IF r.raised = "ok" THEN "selected" ELSE "other",
                            !.stage = IF r.raised = "ok" THEN "pkg" ELSE "",
                            !.given = IF r.raised = "ok" THEN ApplyKw(NoVals, kw) ELSE NoVals]
            /\ UNCHANGED <<executed, reported, masked, verbose, jobvars, trackvars>>

SetEmptyPackage ==
    \E title \in TitleInputs :
        LET r == set_empty_package(Cur, title)
        IN  /\ Commit(r)
            /\ last' = [Called("set_empty_package", r) EXCEPT !.phase = "empty"]
            /\ UNCHANGED <<executed, reported, masked, verbose, jobvars, trackvars>>

DetachPackage ==
    LET r == Outcome(detach_package(Cur), "ok", {})
    IN  /\ Commit(r)
        /\ last' = [Called("detach_package", r) EXCEPT !.phase = PhaseAfterDetach]
        /\ UNCHANGED <<executed, reported, masked, verbose, jobvars, trackvars>>

Reset ==
    \E kw \in KwInputs, pk \in GetPkgsOutcomes(stored_id) :
        LET r == reset(Cur, kw, pk)
        IN  /\ Commit(r)
            /\ last' = [Called("reset", r) EXCEPT !.kw = kw]
            /\ UNCHANGED <<executed, reported, masked, verbose, jobvars, trackvars>>

SetParam ==
    \E kw \in KwInputs :
        LET r == set_param(Cur, kw)
        IN  /\ Commit(r)
            /\ last' = [Called("set_param", r) EXCEPT
                            !.kw = kw,
                            !.stage = IF r.raised = "ok" /\ last.stage = "pkg"
                                      THEN "pkg;param" ELSE "",
                            !.given = IF r.raised = "ok" /\ last.stage = "pkg"
                                      THEN ApplyKw(last.given, kw) ELSE NoVals]
            /\ UNCHANGED <<executed, reported, masked, verbose, jobvars, trackvars>>

Run ==
    \E idx \in IdxInputs, kw \in KwInputs, pk \in GetPkgsOutcomes(stored_id) :
        LET r == run(Cur, idx, kw, pk, verbose)
        IN  /\ Commit(r)
            /\ last' = [Called("run", r) EXCEPT !.kw = kw, !.idx = idx]
            /\ UNCHANGED <<executed, reported, masked, verbose, jobvars, trackvars>>

Summary ==
    /\ last' = [Called("summary", Outcome(Cur, "ok", {}))
                   EXCEPT !.ret = summary(Cur, executed, reported, masked)]
    /\ UNCHANGED <<selected, pipeline_title, stored_id, interface_plugins, pipeobj,
                   executed, reported, masked, verbose, jobvars, trackvars>>

GetParam ==
    LET r == get_param(selected)
    IN  /\ last' = [Called("get_param", Outcome(Cur, r.raised, {})) EXCEPT !.ret = r.ret]
        /\ UNCHANGED <<selected, pipeline_title, stored_id, interface_plugins, pipeobj,
                       executed, reported, masked, verbose, jobvars, trackvars>>

Next ==
    \/ SetPackage
    \/ SetEmptyPackage
    \/ DetachPackage
    \/ Reset
    \/ SetParam
    \/ GetParam
    \/ Run
    \/ Summary

Spec == Init /\ [][Next]_vars


-----------------------------------------------------------------------------
(* Properties of the orchestrator *)

\* a step of the operation op
StepOf(op) == last'.op = op

\* C1: run before any set_package or set_empty_package call fails with
\* NoPackageSelected, invokes no step, and leaves title, stored id, bound
\* definition, interface and loaded object as they were.
C1_RunBeforeSelection ==
    [][ (StepOf("run") /\ last.phase = "fresh")
           => /\ last'.raised = NoPackageSelected
              /\ last'.invoked = << >>
              /\ last'.rebuilt = {}
              /\ Cur' = Cur ]_vars

C1_Witness ==
    /\ last.op = "run" /\ last.phase = "fresh"
    /\ last.kw # << >> /\ last.idx = 0
    /\ last.raised = NoPackageSelected

\* C2: every set_package call that fails, for a non-integer id or for an
\* integer that is no index of installed_packages, leaves stored id, title
\* and bound definition as they were.
C2_FailedSetPackageKeepsSelection ==
    [][ (/\ StepOf("set_package")
         /\ last'.raised # "ok"
         /\ (~last'.id.isInt \/ last'.id.n \notin DOMAIN installed_packages))
           => /\ stored_id' = stored_id
              /\ pipeline_title' = pipeline_title
              /\ selected' = selected ]_vars

\* C3: on a selected package set_param succeeds iff every given name is an
\* attribute of the bound definition; when a name is missing it fails with
\* UnknownParameterName and no attribute has changed; it never creates an
\* attribute.
C3_SetParamAllOrNothing ==
    [][ (StepOf("set_param") /\ selected # NoneDef)
           => LET allExist == \A n \in KwNames(last'.kw) : HasAttr(selected, n)
              IN  /\ (last'.raised = "ok") <=> allExist
                  /\ ~allExist => /\ last'.raised = UnknownParameterName
                                  /\ selected' = selected
                  /\ DOMAIN selected'.vals = DOMAIN selected.vals ]_vars

\* defaults overridden by the values in g
Overlay(f, g) ==
    [n \in (DOMAIN f) \cup (DOMAIN g) |-> IF n \in DOMAIN g THEN g[n] ELSE f[n]]

\* C4: after set_package(id, **p1), set_param(**p2), the step invoked by
\* run(idx, **p3) sees the package defaults overridden by p1, then p2, then p3.
C4_RunKeepsProvidedParams ==
    [][ (StepOf("run") /\ last.stage = "pkg;param" /\ last'.invoked # << >>)
           => last'.invokedWith =
                 ApplyKw(Overlay(ClassDefaults(selected.cls), last.given), last'.kw) ]_vars

\* C5: a run on a selected package that fails with UnknownStepIndex or
\* UnknownParameterName leaves the bound definition and its parameter values
\* as they were.
C5_FailedRunKeepsDefinition ==
    [][ (/\ StepOf("run")
         /\ selected # NoneDef
         /\ last'.raised \in {UnknownStepIndex, UnknownParameterName})
           => /\ selected' = selected
              /\ "selected" \notin last'.rebuilt ]_vars

\* the orchestrator is unselected: before any selection, or after
\* detach_package released the bound definition
Unselected == selected = NoneDef /\ last.phase \in {"fresh", "detached"}

\* C6: reset in an unselected state rebuilds nothing and leaves the
\* orchestrator unselected.
C6_ResetNoOpWhenUnselected ==
    [][ (StepOf("reset") /\ Unselected)
           => /\ last'.rebuilt = {}
              /\ Cur' = Cur ]_vars

\* the "no selection" result of summary, the string 'None', and a listing
IsNoSelection(ret) == ret.kind = "text" /\ ret.literal = "None"
IsListing(ret)     == ret.kind = "text" /\ ret.literal = ""

\* C7: summary yields "no selection" in every unselected state, so a listing
\* only outside them, and changes neither the selection nor the bound
\* definition and its parameters.
C7_SummaryNoSelectionWhenUnselected ==
    [][ StepOf("summary")
           => /\ Unselected => IsNoSelection(last'.ret)
              /\ IsListing(last'.ret) => ~Unselected
              /\ Cur' = Cur ]_vars

\* C11 as stated: get_param and set_param both fail with NoPackageSelected
\* whenever no definition is bound (initially, after detach_package, after
\* set_empty_package).
C11_BothParamOpsFailUnselected ==
    [][ ((StepOf("get_param") \/ StepOf("set_param")) /\ selected = NoneDef)
           => last'.raised = NoPackageSelected ]_vars

\* C11 amended: whenever no definition is bound, set_param fails with
\* NoPackageSelected, while get_param does not fail: it returns "no
\* selection" (None); neither changes a field of the orchestrator.
C11_ParamOpsWhenUnselected ==
    [][ ((StepOf("get_param") \/ StepOf("set_param")) /\ selected = NoneDef)
           => /\ StepOf("set_param") => last'.raised = NoPackageSelected
              /\ StepOf("get_param") => /\ last'.raised = "ok"
                                        /\ last'.ret = NoReturn
              /\ Cur' = Cur ]_vars

C11_Witness ==
    /\ last.op = "get_param" /\ last.phase = "empty"
    /\ selected = NoneDef /\ pipeline_title # NoTitle
    /\ last.raised = "ok" /\ last.ret.kind = "None"

\* Python s.startswith(pre) on character sequences
StartsWith(pre, s) == Len(s) >= Len(pre) /\ SubSeq(s, 1, Len(pre)) = pre

\* C12: for a bound definition the keys of get_param() are exactly the
\* attribute names that neither start with "_", nor are installed_pipelines
\* or interface, nor start with "pipe_", and each key maps to the attribute's
\* current value; in particular installed_pipelines is no key, and a plain
\* attribute with "pipe_" in the middle of its name is one.
C12_GetParamKeys ==
    [][ (StepOf("get_param") /\ selected # NoneDef)
           => /\ DOMAIN last'.ret.params =
                     {n \in Range(ClassDir(selected.cls)) :
                         /\ ~StartsWith(<<"_">>, Chars(n))
                         /\ n \notin {"installed_pipelines", "interface"}
                         /\ ~StartsWith(PipePrefix, Chars(n))}
              /\ \A n \in DOMAIN last'.ret.params :
                     last'.ret.params[n] = getattr(selected, n)
              /\ "installed_pipelines" \notin DOMAIN last'.ret.params
              /\ \A n \in DOMAIN selected.vals :
                     (/\ Contains(PipePrefix, Chars(n))
                      /\ ~StartsWith(PipePrefix, Chars(n))
                      /\ ~StartsWith(<<"_">>, Chars(n)))
                        => n \in DOMAIN last'.ret.params ]_vars

\* C13: on a package selected by set_package, run(i, **params) with params
\* naming attributes only and i no index of the step registry fails with
\* UnknownStepIndex and invokes no step, verbose or not.
C13_RunOutsideRegistry ==
    [][ (/\ StepOf("run")
         /\ last.phase = "selected"
         /\ \A n \in KwNames(last'.kw) : HasAttr(selected, n)
         /\ last'.idx \notin DOMAIN installed_pipelines(selected))
           => /\ last'.raised = UnknownStepIndex
              /\ last'.invoked = << >> ]_vars

C13_Witness ==
    /\ last.op = "run" /\ last.phase = "selected" /\ verbose
    /\ last.kw # << >> /\ \A n \in KwNames(last.kw) : HasAttr(selected, n)
    /\ last.idx \notin DOMAIN installed_pipelines(selected)
    /\ last.raised = UnknownStepIndex /\ last.invoked = << >>

\* C14: for every bound definition installed_pipelines has the keys 0..n-1
\* and as values, in scan order, the names of exactly the members starting
\* with "pipe_", prefix stripped; n is the number of such members.
C14_RegistryIsPrefixedMembers ==
    selected # NoneDef
        => LET IsStep(n) == StartsWith(PipePrefix, Chars(n))
               steps == SelectSeq(ClassDir(selected.cls), IsStep)
           IN  /\ DOMAIN installed_pipelines(selected) = 0..(Len(steps) - 1)
               /\ \A i \in DOMAIN installed_pipelines(selected) :
                      PipePrefix \o installed_pipelines(selected)[i] = Chars(steps[i + 1])

\* C19: a run(idx, **params) that returns has rebuilt the bound definition,
\* then applied params to the rebuilt definition, then invoked the step
\* registered at idx: once, on that definition with those values, and no
\* other step.
C19_RunResetParamsInvoke ==
    [][ (StepOf("run") /\ last'.raised = "ok")
           => /\ "selected" \in last'.rebuilt
              /\ selected'.cls = pipeline_title
              /\ selected'.vals = ApplyKw(ClassDefaults(selected'.cls), last'.kw)
              /\ last'.idx \in DOMAIN installed_pipelines(selected')
              /\ Len(last'.invoked) = 1
              /\ Chars(last'.invoked[1]) =
                     PipePrefix \o installed_pipelines(selected')[last'.idx]
              /\ last'.invokedWith = selected'.vals ]_vars

C19_Witness ==
    /\ last.op = "run" /\ last.raised = "ok" /\ last.idx = 1
    /\ Len(last.kw) = 2 /\ last.invoked = <<"pipe_s1">>
    /\ last.invokedWith = selected.vals /\ selected.vals["x"] = 1


-----------------------------------------------------------------------------
(* The orchestrator over a changing storage *)

StorageCodes == {"abc", "def"}
RemoveCodes  == {"abc", "def", "ab"}
ModeInputs   == {"processing", "masking"}
ExtInputs    == {"nii.gz", "mat"}
RegexInputs  == {<< >>, <<"sub">>}

\* the arguments given to remove: a list of codes, one string, or a value
\* that is neither (an integer)
RemoveInputs ==
    {[kind |-> "list", arg |-> l] : l \in UNION {[1..n -> RemoveCodes] : n \in 0..MaxList}}
    \cup {[kind |-> "str", arg |-> <<c>>] : c \in RemoveCodes \cup {"abcd"}}
    \cup {[kind |-> "other", arg |-> << >>]}

\* a step run by the plugin, or the storage collaborator, registers a code
StorageWrite ==
    /\ \E c \in StorageCodes :
          \/ executed' = executed \cup {c} /\ UNCHANGED <<reported, masked>>
          \/ reported' = reported \cup {c} /\ UNCHANGED <<executed, masked>>
          \/ masked' = masked \cup {c} /\ UNCHANGED <<executed, reported>>
    /\ last' = Called("storage", Outcome(Cur, "ok", {}))
    /\ UNCHANGED <<selected, pipeline_title, stored_id, interface_plugins, pipeobj,
                   verbose, jobvars, trackvars>>

Remove ==
    \E inp \in RemoveInputs, mode \in ModeInputs :
        LET st0 == [ex |-> executed, rp |-> reported, mk |-> masked,
                    destroyed |-> << >>, raised |-> "ok"]
            st1 == remove(interface_plugins, st0, inp.kind, inp.arg, mode)
        IN  /\ executed' = st1.ex
            /\ reported' = st1.rp
            /\ masked' = st1.mk
            /\ last' = [Called("remove", Outcome(Cur, st1.raised, {})) EXCEPT
                            !.argKind = inp.kind, !.arg = inp.arg, !.mode = mode,
                            !.destroyed = st1.destroyed]
            /\ UNCHANGED <<selected, pipeline_title, stored_id, interface_plugins, pipeobj,
                   verbose, jobvars, trackvars>>

GetDset ==
    \E code \in StorageCodes, ext \in ExtInputs, regex \in RegexInputs :
        LET r == get_dset(interface_plugins, executed, reported, masked, code, ext, regex)
        IN  /\ last' = [Called("get_dset", Outcome(Cur, r.raised, {})) EXCEPT
                            !.argKind = "str", !.arg = <<code>>, !.ext = ext,
                            !.regex = regex, !.ret = r.ret]
            /\ UNCHANGED <<selected, pipeline_title, stored_id, interface_plugins, pipeobj,
                           executed, reported, masked, verbose, jobvars, trackvars>>

NextStore ==
    \/ SetEmptyPackage
    \/ StorageWrite
    \/ Remove
    \/ GetDset

SpecStore == Init /\ [][NextStore]_vars


-----------------------------------------------------------------------------
(* Properties of remove and get_dset *)

\* a string of exactly 3 characters
WellFormedCode(c) == Len(Chars(c)) = 3

\* the argument of the last remove is a well-formed code or a list of them
WellFormedArg ==
    \/ last.argKind = "str" /\ WellFormedCode(last.arg[1])
    \/ last.argKind = "list" /\ \A i \in 1..Len(last.arg) : WellFormedCode(last.arg[i])

\* C8: with an interface bound, remove fails with MalformedStepCode and makes
\* no destroy_step call for every argument that is neither a 3-character
\* string nor a list of 3-character strings; for a well-formed list it calls
\* destroy_step once per element, in list order, with the given mode.
C8_RemoveRejectsMalformedCodes ==
    (last.op = "remove" /\ interface_plugins # NoTitle)
       => /\ ~WellFormedArg => /\ last.raised = MalformedStepCode
                               /\ last.destroyed = << >>
          /\ (WellFormedArg /\ last.argKind = "list")
                => /\ last.raised = "ok"
                   /\ last.destroyed =
                         [i \in 1..Len(last.arg) |-> [code |-> last.arg[i], mode |-> last.mode]]

\* the code asked of the last get_dset
AskedCode == last.arg[1]

\* C9: with an interface bound, get_dset for a code absent from the three
\* namespaces returns "no data", raises nothing and issues no bucket query.
C9_GetDsetAbsentCodeNoData ==
    (/\ last.op = "get_dset"
     /\ interface_plugins # NoTitle
     /\ AskedCode \notin executed \cup reported \cup masked)
       => /\ last.raised = "ok"
          /\ last.ret.kind = "None"

\* the category of a code: that of the first namespace containing it
FirstCategory(code) ==
    IF code \in executed THEN 1 ELSE IF code \in reported THEN 2 ELSE 3

CategoryKey(cat)  == CASE cat = 1 -> "steps" [] cat = 2 -> "reports" [] cat = 3 -> "datatypes"
CategoryRoot(cat) == CASE cat = 1 -> "Processing" [] cat = 2 -> "Results" [] cat = 3 -> "Mask"

\* C10: for a code held by at least one namespace, get_dset queries the bucket
\* with the category of the first namespace holding the code (processed,
\* reported, masked), that category's key bound to the code's directory in
\* that namespace, the extension, 'regex' iff a pattern was given and
\* 'pipelines' (the interface label) iff the category is not masked.
C10_GetDsetFirstNamespace ==
    (/\ last.op = "get_dset"
     /\ interface_plugins # NoTitle
     /\ AskedCode \in executed \cup reported \cup masked)
       => LET cat == FirstCategory(AskedCode)
              f   == last.ret.filter
          IN  /\ last.raised = "ok"
              /\ last.ret.kind = "query"
              /\ last.ret.dataclass = cat
              /\ DOMAIN f = {"ext", CategoryKey(cat)}
                               \cup (IF last.regex # << >> THEN {"regex"} ELSE {})
                               \cup (IF cat # 3 THEN {"pipelines"} ELSE {})
              /\ f[CategoryKey(cat)] = <<CategoryRoot(cat), AskedCode>>
              /\ f["ext"] = <<last.ext>>
              /\ last.regex # << >> => f["regex"] = last.regex
              /\ cat # 3 => f["pipelines"] = <<interface_plugins>>

C10_Witness ==
    /\ last.op = "get_dset"
    /\ interface_plugins # NoTitle
    /\ AskedCode \notin executed
    /\ AskedCode \in reported /\ AskedCode \in masked
    /\ last.ret.kind = "query" /\ last.ret.dataclass = 2
    /\ last.regex # << >>

-----------------------------------------------------------------------------
(* Pipeline.check_progression and its polling thread *)

\* progressbar(total=, desc=, initial=): a new progress bar.  received: the sum
\* of the increments given to update(); src: the trackers that called
\* update(); closes, closedBy: the close() calls and the trackers making them
NewBar(total, desc, initial) ==
    [total |-> total, desc |-> desc, initial |-> initial,
     received |-> 0, src |-> {}, closes |-> 0, closedBy |-> {}]

\* the loop condition of workon with <= in place of <
LoopTest_LessEq(t) == t.n_finished <= t.n_queued + t.n_finished

\* the loop condition of workon
LoopTest(t) == t.n_finished < t.n_queued + t.n_finished

\* where the thread stands after evaluating the loop condition
AtLoopHead(t) == [t EXCEPT !.pc = IF LoopTest(t) THEN "poll" ELSE "close"]

\* the thread of workon(n_queued, n_finished), up to its first read of shared
\* data.  q0, f0: the arguments; delta: the increment computed and not yet
\* reported; reported: the sum of the increments reported; sawEmpty: whether
\* it has read the queue empty
NewTracker(n_queued, n_finished) ==
    AtLoopHead([n_queued |-> n_queued, n_finished |-> n_finished,
                q0 |-> n_queued, f0 |-> n_finished,
                delta |-> 0, reported |-> 0,
                sawEmpty |-> FALSE, pc |-> "poll"])

\* check_progression up to its read of the queue: << >> when the call is over
\* (no interface), <<queued_jobs>> otherwise; param: scheduler_param
check_progression_queued(st, param) ==
    IF st.iface # NoTitle THEN << Len(param.queue) >> ELSE << >>

\* its read of done, an unlocked read later than that of the queue, and the
\* choice of the description, which fails for an unknown stored id
check_progression_finished(st, queued_jobs, param) ==
    LET finished_jobs == Len(param.done)
    IN  IF st.sid # NoId /\ st.sid[1] \notin DOMAIN installed_packages
        THEN [raised |-> "KeyError", pending |-> << >>]
        ELSE [raised |-> "ok", pending |-> <<queued_jobs, finished_jobs>>]

\* self._progressbar = progressbar(...), from the counts read earlier;
\* tv: the fields progressbar, bars, trackers
check_progression_bar(st, queued_jobs, finished_jobs, tv) ==
    [tv EXCEPT !.progressbar = Len(tv.bars) + 1,
               !.bars = Append(tv.bars,
                               NewBar(queued_jobs + finished_jobs,
                                      IF st.sid # NoId
                                      THEN installed_packages[st.sid[1]]
                                      ELSE st.title,
                                      finished_jobs))]

\* the thread start that ends check_progression
check_progression_start(queued_jobs, finished_jobs, tv) ==
    [tv EXCEPT !.trackers = Append(tv.trackers, NewTracker(queued_jobs, finished_jobs))]

\* one poll that shifts delta also when it is not positive
workon_poll_AnyDelta(t, param) ==
    LET delta == t.n_queued - Len(param.queue)
        t1    == [t EXCEPT !.sawEmpty = @ \/ Len(param.queue) = 0]
    IN  [param |-> param,
         t |-> [t1 EXCEPT !.n_queued = @ - delta, !.n_finished = @ + delta,
                          !.delta = delta, !.pc = "report"]]

\* one poll that also takes the jobs it counted as finished off the queue
workon_poll_Drain(t, param) ==
    LET delta == t.n_queued - Len(param.queue)
        t1    == [t EXCEPT !.sawEmpty = @ \/ Len(param.queue) = 0]
    IN  IF delta > 0
        THEN [param |-> [param EXCEPT !.queue = << >>],
              t |-> [t1 EXCEPT !.n_queued = @ - delta, !.n_finished = @ + delta,
                               !.delta = delta, !.pc = "report"]]
        ELSE [param |-> param, t |-> AtLoopHead(t1)]

\* one pass of the loop body up to the update call: read the queue length,
\* shift a positive delta from queued to finished
workon_poll(t, param) ==
    LET delta == t.n_queued - Len(param.queue)
        t1    == [t EXCEPT !.sawEmpty = @ \/ Len(param.queue) = 0]
    IN  IF delta > 0
        THEN [param |-> param,
              t |-> [t1 EXCEPT !.n_queued = @ - delta, !.n_finished = @ + delta,
                               !.delta = delta, !.pc = "report"]]
        ELSE [param |-> param, t |-> AtLoopHead(t1)]

\* self._progressbar.update(delta) by tracker i, then sleep and loop condition;
\* bar is the bar self._progressbar refers to at the call
workon_report(t, bar, i) ==
    [bar |-> [bar EXCEPT !.received = @ + t.delta, !.src = @ \cup {i}],
     t   |-> AtLoopHead([t EXCEPT !.reported = @ + t.delta, !.delta = 0])]

\* self._progressbar.close() by tracker i, the end of the thread
workon_close(t, bar, i) ==
    [bar |-> [bar EXCEPT !.closes = @ + 1, !.closedBy = @ \cup {i}],
     t   |-> [t EXCEPT !.pc = "done"]]

Param == [queue |-> queue, done |-> done]
TrackFields == [progressbar |-> progressbar, bars |-> bars, trackers |-> trackers]

\* the main thread is in no call
Idle == pending = << >>

\* the call of check_progression, up to the read of the queue; without an
\* interface the call returns at once
CheckProgressionCall ==
    /\ Idle
    /\ Len(trackers) < MaxTrackers
    /\ pending' = check_progression_queued(Cur, Param)
    /\ last' = IF pending' = << >>
               THEN Called("check_progression", Outcome(Cur, "ok", {}))
               ELSE last
    /\ UNCHANGED <<selected, pipeline_title, stored_id, interface_plugins, pipeobj,
                   executed, reported, masked, verbose, jobvars,
                   progressbar, bars, trackers>>

\* the read of done and the choice of the description
CheckProgressionFinished ==
    /\ Len(pending) = 1
    /\ LET r == check_progression_finished(Cur, pending[1], Param)
       IN  /\ pending' = r.pending
           /\ last' = IF r.raised # "ok"
                      THEN Called("check_progression", Outcome(Cur, r.raised, {}))
                      ELSE last
    /\ UNCHANGED <<selected, pipeline_title, stored_id, interface_plugins, pipeobj,
                   executed, reported, masked, verbose, jobvars,
                   progressbar, bars, trackers>>

\* the new bar and its assignment to self._progressbar
CheckProgressionBar ==
    /\ Len(pending) = 2
    /\ LET tv == check_progression_bar(Cur, pending[1], pending[2], TrackFields)
       IN  /\ progressbar' = tv.progressbar
           /\ bars' = tv.bars
           /\ pending' = Append(pending, tv.progressbar)
    /\ UNCHANGED <<selected, pipeline_title, stored_id, interface_plugins, pipeobj,
                   executed, reported, masked, verbose, jobvars, last, trackers>>

\* the thread start and the return
CheckProgressionReturn ==
    /\ Len(pending) = 3
    /\ trackers' = check_progression_start(pending[1], pending[2], TrackFields).trackers
    /\ last' = Called("check_progression", Outcome(Cur, "ok", {}))
    /\ pending' = << >>
    /\ UNCHANGED <<selected, pipeline_title, stored_id, interface_plugins, pipeobj,
                   executed, reported, masked, verbose, jobvars, progressbar, bars>>

\* a step of a check_progression call
CheckProgression ==
    \/ CheckProgressionCall
    \/ CheckProgressionFinished
    \/ CheckProgressionBar
    \/ CheckProgressionReturn

Poll(i) ==
    /\ trackers[i].pc = "poll"
    /\ LET r == workon_poll(trackers[i], Param)
       IN  /\ trackers' = [trackers EXCEPT ![i] = r.t]
           /\ queue' = r.param.queue
           /\ done' = r.param.done
    /\ UNCHANGED <<selected, pipeline_title, stored_id, interface_plugins, pipeobj,
                   executed, reported, masked, verbose, last, progressbar, bars,
                   pending>>

Report(i) ==
    /\ trackers[i].pc = "report"
    /\ LET r == workon_report(trackers[i], bars[progressbar], i)
       IN  /\ trackers' = [trackers EXCEPT ![i] = r.t]
           /\ bars' = [bars EXCEPT ![progressbar] = r.bar]
    /\ UNCHANGED <<selected, pipeline_title, stored_id, interface_plugins, pipeobj,
                   executed, reported, masked, verbose, last, progressbar, jobvars,
                   pending>>

Close(i) ==
    /\ trackers[i].pc = "close"
    /\ LET r == workon_close(trackers[i], bars[progressbar], i)
       IN  /\ trackers' = [trackers EXCEPT ![i] = r.t]
           /\ bars' = [bars EXCEPT ![progressbar] = r.bar]
    /\ UNCHANGED <<selected, pipeline_title, stored_id, interface_plugins, pipeobj,
                   executed, reported, masked, verbose, last, progressbar, jobvars,
                   pending>>

\* a step of the thread of tracker i
Tracker(i) == Poll(i) \/ Report(i) \/ Close(i)

\* the scheduler of the interface is given a job
JobSubmit ==
    /\ interface_plugins # NoTitle
    /\ Len(queue) + Len(done) < MaxJobs
    /\ queue' = Append(queue, Len(queue) + Len(done) + 1)
    /\ UNCHANGED <<selected, pipeline_title, stored_id, interface_plugins, pipeobj,
                   executed, reported, masked, verbose, last, done, trackvars>>

\* the scheduler of the interface finishes the job at the head of its queue
JobFinish ==
    /\ queue # << >>
    /\ queue' = Tail(queue)
    /\ done' = Append(done, Head(queue))
    /\ UNCHANGED <<selected, pipeline_title, stored_id, interface_plugins, pipeobj,
                   executed, reported, masked, verbose, last, trackvars>>

\* an orchestrator constructed with verbose=False (check_progression and
\* workon do not read the option), new or with set_package(0) returned
InitTrack ==
    \/ Init /\ ~verbose
    \/ \E pk \in GetPkgsOutcomes(<<0>>) :
         LET r == set_package([selected |-> NoneDef, title |-> NoTitle, sid |-> NoId,
                               iface |-> NoTitle, pipeobj |-> NoObj],
                              IntId(0), << >>, pk)
         IN  /\ selected = r.st.selected
             /\ pipeline_title = r.st.title
             /\ stored_id = r.st.sid
             /\ interface_plugins = r.st.iface
             /\ pipeobj = r.st.pipeobj
             /\ last = [NoCall EXCEPT !.op = "set_package", !.rebuilt = r.rebuilt,
                                      !.id = IntId(0), !.phase = "selected",
                                      !.stage = "pkg"]
             /\ executed = {} /\ reported = {} /\ masked = {}
             /\ verbose = FALSE
             /\ queue = << >> /\ done = << >>
             /\ progressbar = 0 /\ bars = << >> /\ trackers = << >> /\ pending = << >>

TrackerIds == 1..MaxTrackers

NextTrack ==
    \/ Idle /\ DetachPackage
    \/ CheckProgressionCall
    \/ CheckProgressionFinished
    \/ CheckProgressionBar
    \/ CheckProgressionReturn
    \/ \E i \in DOMAIN trackers : Poll(i)
    \/ \E i \in DOMAIN trackers : Report(i)
    \/ \E i \in DOMAIN trackers : Close(i)
    \/ JobSubmit
    \/ JobFinish

SpecTrack == InitTrack /\ [][NextTrack]_vars

\* check_progression calls, tracker threads and the scheduler, with the
\* selection left alone
NextPoll ==
    \/ CheckProgressionCall
    \/ CheckProgressionFinished
    \/ CheckProgressionBar
    \/ CheckProgressionReturn
    \/ \E i \in DOMAIN trackers : Poll(i)
    \/ \E i \in DOMAIN trackers : Report(i)
    \/ \E i \in DOMAIN trackers : Close(i)
    \/ JobSubmit
    \/ JobFinish

\* every started thread keeps being scheduled
FairSpecPoll ==
    /\ InitTrack /\ [][NextPoll]_vars
    /\ \A i \in TrackerIds : WF_vars(i \in DOMAIN trackers /\ Tracker(i))
-----------------------------------------------------------------------------
(* Properties of progress tracking *)

\* the total a tracker captured at its start
TotalAtStart(t) == t.q0 + t.f0

\* C15: a tracker has left its loop only with its local finished count equal
\* to the total captured at start, and is inside the loop only with it below
\* or with the last increment still to report; having left, it calls
\* close(); one started on an empty queue is never inside the loop.  With
\* every thread scheduled fairly, a tracker that read the queue empty at a
\* poll, or was started on an empty queue, ends: having read the queue empty
\* and having ended both last, so it is enough that again and again every
\* such tracker has ended.
C15_TrackerTermination ==
    /\ [](\A i \in DOMAIN trackers :
            LET t == trackers[i]
            IN  /\ t.pc \in {"close", "done"} => t.n_finished = TotalAtStart(t)
                /\ t.pc = "poll" => t.n_finished < TotalAtStart(t)
                /\ t.pc = "done" => \E b \in DOMAIN bars : i \in bars[b].closedBy
                /\ t.q0 = 0 => t.pc \in {"close", "done"} /\ ~t.sawEmpty)
    /\ [][\A i \in DOMAIN trackers :
             /\ i \in DOMAIN trackers'
             /\ trackers[i].sawEmpty => trackers'[i].sawEmpty
             /\ trackers'[i].q0 = trackers[i].q0
             /\ trackers[i].pc = "done" => trackers'[i].pc = "done"]_vars
    /\ []<>(\A i \in DOMAIN trackers :
               (trackers[i].sawEmpty \/ trackers[i].q0 = 0) => trackers[i].pc = "done")

\* a tracker started on a non-empty queue that grew afterwards has read the
\* queue empty and ended
C15_Witness ==
    \E i \in DOMAIN trackers :
        /\ trackers[i].q0 > 0 /\ trackers[i].sawEmpty /\ trackers[i].pc = "done"
        /\ Len(queue) + Len(done) > TotalAtStart(trackers[i])

\* C16: check_progression in an unselected state (before any selection,
\* after detach_package) creates no progress bar and starts no thread; a
\* tracker is started only while a definition is bound.
C16_NoTrackerWhenUnselected ==
    [][ CheckProgression
           => /\ Unselected => UNCHANGED <<progressbar, bars, trackers>>
              /\ trackers' # trackers => selected # NoneDef ]_vars

\* C17: at every poll of every tracker, whatever the scheduler did to the
\* queue: local queued + local finished is the total captured at start, local
\* queued is not negative, an increment to report is positive, the increments
\* computed so far sum to local finished minus the finished count at start,
\* and once the loop is left the increments reported sum to the queued count
\* at start.
C17_TrackerCounters ==
    \A i \in DOMAIN trackers :
        LET t == trackers[i]
        IN  /\ t.n_queued + t.n_finished = TotalAtStart(t)
            /\ t.n_queued >= 0
            /\ t.pc = "report" => t.delta > 0
            /\ t.reported + t.delta = t.n_finished - t.f0
            /\ t.pc \in {"close", "done"} => t.reported = t.q0

C17_Witness ==
    \E i \in DOMAIN trackers :
        /\ trackers[i].q0 = 2 /\ trackers[i].f0 = 0
        /\ trackers[i].pc = "done" /\ trackers[i].reported = 2

\* C18: with two trackers started on non-empty queues, each bar is updated
\* and closed by the tracker of its own check_progression call only, is
\* closed at most once, and when its tracker has ended it is closed and has
\* received the queued count captured at that tracker's start.
C18_TrackersIndependent ==
    (Len(trackers) >= 2 /\ \A i \in DOMAIN trackers : trackers[i].q0 > 0)
       => \A i \in DOMAIN trackers :
             /\ bars[i].src \subseteq {i}
             /\ bars[i].closedBy \subseteq {i}
             /\ bars[i].closes <= 1
             /\ trackers[i].pc = "done" => /\ bars[i].closes = 1
                                           /\ bars[i].received = trackers[i].q0

\* C20: no step of check_progression or of a tracker thread changes the
\* scheduler's queue or done; every change of them is a step of the
\* scheduler.
C20_TrackerReadOnly ==
    [][ /\ (CheckProgression \/ \E i \in DOMAIN trackers : Tracker(i))
              => UNCHANGED jobvars
        /\ jobvars' # jobvars => (JobSubmit \/ JobFinish) ]_vars

C20_Witness ==
    \E i \in DOMAIN trackers :
        /\ trackers[i].reported > 0 /\ trackers[i].pc = "poll"
        /\ queue # << >> /\ done # << >>

=============================================================================
